---- MODULE Spec2Model ----
(***************************************************************************)
(* Model of dragonshell (src/main.c): the prompt loop of main, the         *)
(* built-ins, execute_command, execute_pipe, the two signal handlers and   *)
(* the child processes the shell forks.                                    *)
(*                                                                         *)
(* An input line is modelled after tokenisation, as the sequence of its    *)
(* whitespace-separated tokens; "|" is a token of its own.  An argument    *)
(* vector is that sequence followed by the NULL terminator, and the code's *)
(* `args[i] = NULL` overwrites one slot of it.                             *)
(*                                                                         *)
(* CPU time is counted in ticks of half a second; tv_sec is the whole      *)
(* number of seconds of a tick count.                                      *)
(*                                                                         *)
(* Pipe descriptors are tracked for the newest pipe only: `pipefd` and the *)
(* `fds` of a process are the ends ("r", "w") of that pipe they hold open. *)
(*                                                                         *)
(* The model follows the session until the shell exits: the children left  *)
(* behind are not followed further, and of the shell only its exit status, *)
(* its output, the signals it has sent and the kernel's accounting of its  *)
(* reaped children remain.                                                 *)
(*                                                                         *)
(* signal() is taken with the BSD semantics of the default glibc build:    *)
(* the handler stays installed and an interrupted waitpid/getline is       *)
(* restarted, so a handler run leaves the shell where it was.              *)
(*                                                                         *)
(* Of what the shell prints to stdout, the banner is followed through the  *)
(* stdio buffer: whether it is still in the shell's buffer, which child    *)
(* was forked with a copy of it, and how often it has been written out.    *)
(* The buffer is written out by fflush and by exit(); that it also is when *)
(* it runs full is left out.                                               *)
(*                                                                         *)
(* Specifications: Spec, the session of a shell on a terminal;             *)
(* SpecBuffered, the same session with a fully buffered stdout; SpecPipe,  *)
(* pipelines only, with the fairness of scheduling and of programs that    *)
(* terminate; SpecChild, one foreground child of execute_command for every *)
(* command of ChildLines.                                                  *)
(***************************************************************************)
EXTENDS Integers, Sequences, FiniteSets, TLC

\* ---------------------------------------------------------------- bounds
MaxProcs == 2        \* processes the shell may fork in one run
MaxTicks == 2        \* CPU ticks one child may have used, user plus system
MaxChildArgs == 4    \* tokens after the program name in a line of ChildLines

\* ------------------------------------------------------------ environment
NULL == "NULL"
NoPid == -1
EXIT_SUCCESS == 0
EXIT_FAILURE == 1

Pids == 1..MaxProcs

\* programs execvp finds, files open() can open, directories chdir() enters
Executables == {"prog"}
ReadableFiles == {"in"}
WritableFiles == {"in", "out"}
Directories == {"home", "dir"}

\* the input lines of the model, tokenised
Lines ==
  { <<>>,
    <<"cd">>, <<"cd", "dir">>, <<"cd", "nodir">>, <<"pwd">>, <<"exit">>,
    <<"prog">>, <<"nosuch">>, <<"prog", "&">>, <<"nosuch", "&">>,
    <<"prog", "&", "arg">>,
    <<"prog", ">", "bad">>, <<"prog", "<", "bad">>,
    <<"prog", "|", "prog">>, <<"prog", "|", "nosuch">> }

\* the commands of the specification of one child: a program name and up to
\* MaxChildArgs arguments, operators or file names
ChildTokens == {"arg", "<", ">", "in", "out"}
ChildLines ==
  {<< "prog" >> \o w :
     w \in UNION {[1..k -> ChildTokens] : k \in 0..MaxChildArgs}}

VARIABLES
  pc,               \* where the shell is: "prompt" (blocked in getline),
                    \* "fg_wait" (waitpid of execute_command), "pipe_fork2",
                    \* "pipe_close", "pipe_wait1", "pipe_wait2", "exited"
  exit_status,      \* the shell's exit status, NoPid while it runs
  exit_cause,       \* "none", "exit", "eof", "alloc", "read_error"
  bg_processes,     \* bg_processes[0]
  child_pid,        \* the global read by the signal handlers
  total_user_time,  \* seconds
  total_sys_time,   \* seconds
  ru_utime,         \* RUSAGE_CHILDREN user time, in ticks (reaped children)
  ru_stime,         \* RUSAGE_CHILDREN system time, in ticks
  cwd,              \* the shell's working directory
  procs,            \* pid -> the process forked under that pid
  pid,              \* execute_command's local: the last fork's result
  p1, p2,           \* execute_pipe's locals
  pipe_cmd2,        \* execute_pipe's cmd2, until the second fork
  pipefd,           \* ends of the newest pipe the shell holds open
  bg_printed,       \* "PID %d is sent to background": <<forked pid, %d>>
  printed_times,    \* exit_shell's two totals <<user, sys>>, <<>> before
  kills,            \* the kill() calls of the shell: <<target, signal>>
  last_signal,      \* the handler run of the last step: [sig, fg, target],
                    \* NoSignal after any other step
  first_done,       \* pipeline stage (1 or 2) that terminated first, 0: none
  banner_pending,   \* the banner main has printed is still in the shell's
                    \* stdout buffer
  banner_emitted    \* how many times the banner has been written out, by
                    \* the shell or by a child that had a copy of the buffer

vars == << pc, exit_status, exit_cause, bg_processes, child_pid,
           total_user_time, total_sys_time, ru_utime, ru_stime, cwd, procs,
           pid, p1, p2, pipe_cmd2, pipefd, bg_printed, printed_times,
           kills, last_signal, first_done, banner_pending, banner_emitted >>

shell_globals == << bg_processes, child_pid, total_user_time, total_sys_time >>
rusage_vars == << ru_utime, ru_stime >>
pipe_locals == << p1, p2, pipe_cmd2, pipefd, first_done >>
exit_vars == << exit_status, exit_cause >>
log_vars == << bg_printed, printed_times, kills >>
stdio_vars == << banner_pending, banner_emitted >>

\* ------------------------------------------------------ argument vectors

\* split_line: the tokens, NULL-terminated
split_line(line) == Append(line, NULL)

\* number of arguments before the first NULL
ArgLen(args) ==
  (CHOOSE i \in 1..Len(args) :
      args[i] = NULL /\ \A j \in 1..(i - 1) : args[j] # NULL) - 1

\* index of the first argument equal to tok before the first NULL, 0 if none
FirstIndex(args, tok) ==
  IF \E i \in 1..ArgLen(args) : args[i] = tok
  THEN CHOOSE i \in 1..ArgLen(args) :
         args[i] = tok /\ \A j \in 1..(i - 1) : args[j] # tok
  ELSE 0

\* is_pipe: the position of the first "|", 0 if none
PipePos(line) ==
  IF \E i \in 1..Len(line) : line[i] = "|"
  THEN CHOOSE i \in 1..Len(line) :
         line[i] = "|" /\ \A j \in 1..(i - 1) : line[j] # "|"
  ELSE 0

is_pipe(line) == PipePos(line) # 0
PipeCmd1(line) == SubSeq(line, 1, PipePos(line) - 1)
PipeCmd2(line) == SubSeq(line, PipePos(line) + 1, Len(line))

\* is_background_process: whether "&" occurs, and the vector cut there
is_background_process(args) == FirstIndex(args, "&") # 0

StripBackground(args) ==
  IF FirstIndex(args, "&") # 0
  THEN [args EXCEPT ![FirstIndex(args, "&")] = NULL]
  ELSE args

\* open(path, O_WRONLY|O_CREAT|O_TRUNC) and open(path, O_RDONLY) succeed
CanOpenWrite(path) == path \in WritableFiles
CanOpenRead(path) == path \in ReadableFiles

\* execvp(args[0], args) replaces the image
CanExec(args) == args[1] \in Executables

\* the child of execute_command, from its two redirection scans to execvp:
\* how it ends up and with which argument vector and bindings
OutputScan(args) ==
  LET i == FirstIndex(args, ">") IN
    IF i = 0 THEN [ok |-> TRUE, args |-> args, out |-> "stdout"]
    ELSE IF ~CanOpenWrite(args[i + 1])
         THEN [ok |-> FALSE, args |-> args, out |-> "stdout"]
         ELSE [ok |-> TRUE, args |-> [args EXCEPT ![i] = NULL],
               out |-> args[i + 1]]

InputScan(args) ==
  LET i == FirstIndex(args, "<") IN
    IF i = 0 THEN [ok |-> TRUE, args |-> args, in |-> "stdin"]
    ELSE IF ~CanOpenRead(args[i + 1])
         THEN [ok |-> FALSE, args |-> args, in |-> "stdin"]
         ELSE [ok |-> TRUE, args |-> [args EXCEPT ![i] = NULL],
               in |-> args[i + 1]]

\* mutant of CommandChild: the results of open() are not checked
CommandChildUnchecked(args) ==
  IF CanExec(args) THEN "exec" ELSE "failed"

CommandChild(args) ==
  LET o == OutputScan(args) IN
    IF ~o.ok THEN "failed"
    ELSE LET n == InputScan(o.args) IN
           IF ~n.ok THEN "failed"
           ELSE IF CanExec(n.args) THEN "exec" ELSE "failed"

\* what execvp(args[0], args) passes on: the arguments before the first NULL
Argv(args) == SubSeq(args, 1, ArgLen(args))

\* the image the child of execute_command runs once execvp has succeeded:
\* the command it was given, the vector execvp passes on, and what dup2 has
\* bound its standard input and output to
ChildImage(args) ==
  LET o == OutputScan(args)
      n == InputScan(o.args)
  IN [cmd |-> Argv(args), argv |-> Argv(n.args), in |-> n.in, out |-> o.out]

\* the highest index one of the two scans reads in its vector: the slot it
\* stops at, or the slot after the operator it has found
LastRead(args, tok) ==
  IF FirstIndex(args, tok) = 0 THEN ArgLen(args) + 1
  ELSE FirstIndex(args, tok) + 1

\* whether a scan of the child reads a slot after the first NULL of the
\* vector it is given
ScanOverrun(args) ==
  \/ LastRead(args, ">") > ArgLen(args) + 1
  \/ /\ OutputScan(args).ok
     /\ LastRead(OutputScan(args).args, "<") > ArgLen(OutputScan(args).args) + 1

\* tv_sec of a time in ticks
tv_sec(ticks) == ticks \div 2

\* mutant of FoldUsage: `-=` in place of `+=`
FoldUsageSubtracts(total, reading) == total - reading

\* total_user_time += usage.ru_utime.tv_sec, and the same for system time
FoldUsage(total, reading) == total + reading

\* ---------------------------------------------------------------- processes

\* no image: the process has not reached execvp, or is gone
NoImage == [cmd |-> <<>>, argv |-> <<>>, in |-> "none", out |-> "none"]

\* a pid no fork has returned yet
NoProc == [kind |-> "none", st |-> "none", how |-> "none", status |-> NoPid,
           args |-> <<>>, fds |-> {}, image |-> NoImage, overrun |-> FALSE,
           buf |-> FALSE]

\* buf:  the child's copy of the stdout buffer holds the banner
\* kind: "fg", "bg" (children of execute_command), "p1", "p2" (pipeline stages)
\* st:   "forked" (before execvp), "running" (the program), "zombie", "reaped"
\* how:  "exec" (execvp replaced the image), or "failed" (the child left
\*       through exit(EXIT_FAILURE) without running a program)
Child(kind, args, fds) ==
  [kind |-> kind, st |-> "forked", how |-> "none", status |-> NoPid,
   args |-> args, fds |-> fds, image |-> NoImage, overrun |-> FALSE,
   buf |-> banner_pending]

Alive(p) == procs[p].st \in {"forked", "running"}

\* fork(): the pid of the new process
FreePids == {p \in Pids : procs[p].st = "none"}
NewPid == CHOOSE p \in FreePids : \A q \in FreePids : p <= q

\* exit(status) in a child that ran no program
Exited(proc) ==
  [proc EXCEPT !.st = "zombie", !.how = "failed", !.status = EXIT_FAILURE,
               !.args = <<>>, !.fds = {}, !.buf = FALSE]

\* exit() and fflush(stdout) write out what the stdout buffer holds
Flushed(pending) == IF pending THEN 1 ELSE 0

\* the shell's stdout buffer is written out: fflush(stdout), exit()
FlushStdout ==
  /\ banner_emitted' = banner_emitted + Flushed(banner_pending)
  /\ banner_pending' = FALSE

\* waitpid(p, NULL, 0) returning: p is reaped and the CPU time it has used,
\* ut user and stm system ticks, is added to the RUSAGE_CHILDREN the kernel
\* keeps for the shell; a child that ran no program has used none
Reap(p, ut, stm) ==
  /\ procs[p].st = "zombie"
  /\ ut + stm <= MaxTicks
  /\ procs[p].how = "failed" => ut + stm = 0
  /\ procs' = [procs EXCEPT ![p].st = "reaped", ![p].image = NoImage]
  /\ ru_utime' = ru_utime + ut
  /\ ru_stime' = ru_stime + stm

\* the stage of the pipeline in progress that terminated first
NoteDone(p) ==
  first_done' = IF first_done # 0 THEN first_done
                ELSE IF p = p1 THEN 1
                ELSE IF p = p2 THEN 2
                ELSE 0

\* no handler has run
NoSignal == [sig |-> "none", fg |-> NoPid, target |-> 0]

InitShell ==
  /\ pc = "prompt"
  /\ exit_status = NoPid
  /\ exit_cause = "none"
  /\ bg_processes = NoPid
  /\ child_pid = NoPid
  /\ total_user_time = 0
  /\ total_sys_time = 0
  /\ ru_utime = 0
  /\ ru_stime = 0
  /\ cwd = "home"
  /\ procs = [p \in Pids |-> NoProc]
  /\ pid = NoPid
  /\ p1 = NoPid
  /\ p2 = NoPid
  /\ pipe_cmd2 = <<>>
  /\ pipefd = {}
  /\ bg_printed = {}
  /\ printed_times = <<>>
  /\ kills = {}
  /\ last_signal = NoSignal
  /\ first_done = 0

\* the shell on a terminal: stdout is line buffered, the banner went out
\* with its newline
Init ==
  /\ InitShell
  /\ banner_pending = FALSE
  /\ banner_emitted = 1

\* the shell with stdout on a pipe or a file: stdout is fully buffered, the
\* banner is in the buffer
InitBuffered ==
  /\ InitShell
  /\ banner_pending = TRUE
  /\ banner_emitted = 0

\* ------------------------------------------------------- leaving the shell

\* exit(status) in the shell
ShellExit(status, cause) ==
  /\ pc' = "exited"
  /\ exit_status' = status
  /\ exit_cause' = cause
  /\ bg_processes' = NoPid
  /\ child_pid' = NoPid
  /\ total_user_time' = 0
  /\ total_sys_time' = 0
  /\ cwd' = "home"
  /\ pid' = NoPid
  /\ p1' = NoPid
  /\ p2' = NoPid
  /\ pipe_cmd2' = <<>>
  /\ pipefd' = {}
  /\ first_done' = 0
  /\ FlushStdout
  /\ UNCHANGED << rusage_vars, procs, bg_printed >>

\* read_line: getline() meets end-of-input
ReadEOF ==
  /\ last_signal' = NoSignal
  /\ pc = "prompt"
  /\ ShellExit(EXIT_SUCCESS, "eof")
  /\ UNCHANGED << printed_times, kills >>

\* read_line: getline() fails otherwise
ReadError ==
  /\ last_signal' = NoSignal
  /\ pc = "prompt"
  /\ ShellExit(EXIT_FAILURE, "read_error")
  /\ UNCHANGED << printed_times, kills >>

\* main: a line without "|", split_line's malloc() returns NULL
SplitLineAllocFail ==
  /\ last_signal' = NoSignal
  /\ pc = "prompt"
  /\ {line \in Lines : ~is_pipe(line)} # {}
  /\ ShellExit(EXIT_FAILURE, "alloc")
  /\ UNCHANGED << printed_times, kills >>

\* the background slots exit_shell signals
OccupiedSlots == IF bg_processes # NoPid THEN {bg_processes} ELSE {}

\* main: "exit" -> exit_shell
ExitShell(line) ==
  /\ last_signal' = NoSignal
  /\ pc = "prompt"
  /\ ~is_pipe(line)
  /\ split_line(line)[1] = "exit"
  /\ printed_times' = << FoldUsage(total_user_time, tv_sec(ru_utime)),
                         FoldUsage(total_sys_time, tv_sec(ru_stime)) >>
  /\ kills' = kills \cup {<< b, "SIGTERM" >> : b \in OccupiedSlots}
  /\ ShellExit(0, "exit")

\* ---------------------------------------------------------------- built-ins

\* main: a line of no tokens
EmptyLine(line) ==
  /\ last_signal' = NoSignal
  /\ UNCHANGED stdio_vars
  /\ pc = "prompt"
  /\ ~is_pipe(line)
  /\ split_line(line)[1] = NULL
  /\ UNCHANGED << pc, exit_vars, shell_globals, rusage_vars, cwd, procs, pid,
                  pipe_locals, log_vars >>

\* cd(path): what it writes, the printf of line 130, the perror of line 134
\* or nothing
cd_output(path) ==
  IF path = NULL THEN "Expected argument"
  ELSE IF path \notin Directories THEN "perror"
  ELSE "none"

\* mutant of cd: the result of chdir() is not looked at
cdUnchecked(path) ==
  IF path = NULL THEN cwd
  ELSE path

\* cd(path): the directory the shell is in afterwards
cd(path) ==
  IF path = NULL THEN cwd
  ELSE IF path \notin Directories THEN cwd
  ELSE path

\* main: "cd" -> cd(tokens[1])
Cd(line) ==
  /\ last_signal' = NoSignal
  /\ UNCHANGED stdio_vars
  /\ pc = "prompt"
  /\ ~is_pipe(line)
  /\ split_line(line)[1] = "cd"
  /\ cwd' = cd(split_line(line)[2])
  /\ UNCHANGED << pc, exit_vars, shell_globals, rusage_vars, procs, pid,
                  pipe_locals, log_vars >>

\* main: "pwd" -> pwd()
Pwd(line) ==
  /\ last_signal' = NoSignal
  /\ UNCHANGED stdio_vars
  /\ pc = "prompt"
  /\ ~is_pipe(line)
  /\ split_line(line)[1] = "pwd"
  /\ UNCHANGED << pc, exit_vars, shell_globals, rusage_vars, cwd, procs, pid,
                  pipe_locals, log_vars >>

Builtins == {NULL, "cd", "pwd", "exit"}

\* ---------------------------------------------------------- execute_command

\* mutant of ParentAfterFork: the parent waits whatever the background flag
ParentAlwaysWaits(background) == "fg_wait"

\* execute_command's parent branch: where the shell is after a fork that
\* succeeded ("fg_wait": blocked in waitpid)
ParentAfterFork(background) == IF ~background THEN "fg_wait" ELSE "prompt"

\* the %d of "PID %d is sent to background" for the pid fork returned
PrintedPid(forked) == forked

\* main: any other first token -> is_background_process, execute_command,
\* up to the parent's waitpid (foreground) or its return (background)
ExecuteCommand(line, fork_ok) ==
  /\ last_signal' = NoSignal
  /\ UNCHANGED stdio_vars
  /\ pc = "prompt"
  /\ ~is_pipe(line)
  /\ split_line(line)[1] \notin Builtins
  /\ LET tokens == split_line(line)
         background == is_background_process(tokens)
         args == StripBackground(tokens)
     IN IF fork_ok
        THEN /\ FreePids # {}
             /\ pid' = NewPid
             /\ procs' = [procs EXCEPT ![NewPid] =
                            Child(IF background THEN "bg" ELSE "fg",
                                  args, pipefd)]
             /\ pc' = ParentAfterFork(background)
             /\ bg_printed' = IF background
                              THEN bg_printed \cup
                                     {<< NewPid, PrintedPid(NewPid) >>}
                              ELSE bg_printed
        ELSE /\ pid' = NoPid
             /\ UNCHANGED << procs, pc, bg_printed >>
  /\ UNCHANGED << exit_vars, shell_globals, rusage_vars, cwd, pipe_locals,
                  printed_times, kills >>

\* mutant of WaitSet: waitpid(-1, NULL, 0), which returns for any child
WaitAnyChild(target) == Pids

\* the children waitpid(target, NULL, 0) can return for
WaitSet(target) == {target}

\* execute_command: waitpid(pid) returns, getrusage, the two totals
ForegroundReaped(ut, stm) ==
  /\ last_signal' = NoSignal
  /\ UNCHANGED stdio_vars
  /\ pc = "fg_wait"
  /\ \E q \in WaitSet(pid) :
       /\ Reap(q, ut, stm)
       /\ total_user_time' = FoldUsage(total_user_time, tv_sec(ru_utime'))
       /\ total_sys_time' = FoldUsage(total_sys_time, tv_sec(ru_stime'))
  /\ pc' = "prompt"
  /\ UNCHANGED << exit_vars, bg_processes, child_pid, cwd, pid, pipe_locals,
                  log_vars >>

\* the child of execute_command: the redirection scans and execvp
CommandChildRuns(p) ==
  /\ last_signal' = NoSignal
  /\ pc # "exited"
  /\ procs[p].kind \in {"fg", "bg"}
  /\ procs[p].st = "forked"
  /\ LET how == CommandChild(procs[p].args)
         overrun == ScanOverrun(procs[p].args)
     IN procs' = [procs EXCEPT ![p] =
                    IF how = "exec"
                    THEN [@ EXCEPT !.st = "running", !.how = how,
                                   !.args = <<>>, !.overrun = overrun,
                                   !.image = ChildImage(procs[p].args),
                                   !.buf = FALSE]
                    ELSE Exited([@ EXCEPT !.overrun = overrun])]
        /\ banner_emitted' =
             banner_emitted +
               (IF how = "exec" THEN 0 ELSE Flushed(procs[p].buf))
        /\ UNCHANGED banner_pending
  /\ UNCHANGED << pc, exit_vars, shell_globals, rusage_vars, cwd, pid,
                  pipe_locals, log_vars >>

\* a program ends
ProgramEnds(p) ==
  /\ last_signal' = NoSignal
  /\ UNCHANGED stdio_vars
  /\ pc # "exited"
  /\ procs[p].st = "running"
  /\ procs' = [procs EXCEPT ![p].st = "zombie", ![p].status = EXIT_SUCCESS,
                            ![p].fds = {}]
  /\ NoteDone(p)
  /\ UNCHANGED << pc, exit_vars, shell_globals, rusage_vars, cwd, pid, p1, p2,
                  pipe_cmd2, pipefd, log_vars >>

\* ------------------------------------------------------------- execute_pipe

\* execute_pipe: pipe() fails
PipeFails ==
  /\ last_signal' = NoSignal
  /\ UNCHANGED stdio_vars
  /\ pc = "prompt"
  /\ {line \in Lines : is_pipe(line)} # {}
  /\ p1' = NoPid
  /\ p2' = NoPid
  /\ first_done' = 0
  /\ UNCHANGED << pc, exit_vars, shell_globals, rusage_vars, cwd, procs, pid,
                  pipe_cmd2, pipefd, log_vars >>

\* execute_pipe: pipe() and the first fork
ExecutePipe(line, fork_ok) ==
  /\ last_signal' = NoSignal
  /\ UNCHANGED stdio_vars
  /\ pc = "prompt"
  /\ is_pipe(line)
  /\ pipefd' = {"r", "w"}
  /\ p2' = NoPid
  /\ first_done' = 0
  /\ LET older == [p \in Pids |-> [procs[p] EXCEPT !.fds = {}]] IN
       IF fork_ok
       THEN /\ FreePids # {}
            /\ p1' = NewPid
            /\ procs' = [older EXCEPT ![NewPid] =
                           Child("p1", PipeCmd1(line), {"r", "w"})]
            /\ pipe_cmd2' = PipeCmd2(line)
            /\ pc' = "pipe_fork2"
       ELSE /\ p1' = NoPid
            /\ procs' = older
            /\ UNCHANGED << pc, pipe_cmd2 >>
  /\ UNCHANGED << exit_vars, shell_globals, rusage_vars, cwd, pid, log_vars >>

\* execute_pipe: the second fork
PipeFork2(fork_ok) ==
  /\ last_signal' = NoSignal
  /\ UNCHANGED stdio_vars
  /\ pc = "pipe_fork2"
  /\ pipe_cmd2' = <<>>
  /\ IF fork_ok
     THEN /\ FreePids # {}
          /\ p2' = NewPid
          /\ procs' = [procs EXCEPT ![NewPid] =
                         Child("p2", pipe_cmd2, pipefd)]
          /\ pc' = "pipe_close"
     ELSE /\ p2' = NoPid
          /\ pc' = "prompt"
          /\ UNCHANGED procs
  /\ UNCHANGED << exit_vars, shell_globals, rusage_vars, cwd, pid, p1, pipefd,
                  first_done, log_vars >>

\* mutant of PipeClose: close(pipefd[1]) is missing
PipeCloseLeavesWriteEnd ==
  /\ last_signal' = NoSignal
  /\ UNCHANGED stdio_vars
  /\ pc = "pipe_close"
  /\ pipefd' = pipefd \ {"r"}
  /\ pc' = "pipe_wait1"
  /\ UNCHANGED << exit_vars, shell_globals, rusage_vars, cwd, procs, pid, p1,
                  p2, pipe_cmd2, first_done, log_vars >>

\* execute_pipe: the parent's close(pipefd[0]); close(pipefd[1])
PipeClose ==
  /\ last_signal' = NoSignal
  /\ UNCHANGED stdio_vars
  /\ pc = "pipe_close"
  /\ pipefd' = {}
  /\ pc' = "pipe_wait1"
  /\ UNCHANGED << exit_vars, shell_globals, rusage_vars, cwd, procs, pid, p1,
                  p2, pipe_cmd2, first_done, log_vars >>

\* execute_pipe: waitpid(p1) returns
PipeWait1(ut, stm) ==
  /\ last_signal' = NoSignal
  /\ UNCHANGED stdio_vars
  /\ pc = "pipe_wait1"
  /\ \E q \in WaitSet(p1) : Reap(q, ut, stm)
  /\ pc' = "pipe_wait2"
  /\ UNCHANGED << exit_vars, shell_globals, cwd, pid, pipe_locals, log_vars >>

\* mutant of PipeWait2: execute_pipe returns without the second waitpid
PipeReturnsAfterWait1(ut, stm) ==
  /\ last_signal' = NoSignal
  /\ UNCHANGED stdio_vars
  /\ pc = "pipe_wait2"
  /\ pc' = "prompt"
  /\ UNCHANGED << exit_vars, shell_globals, rusage_vars, cwd, procs, pid,
                  pipe_locals, log_vars >>

\* execute_pipe: waitpid(p2) returns, and execute_pipe with it
PipeWait2(ut, stm) ==
  /\ last_signal' = NoSignal
  /\ UNCHANGED stdio_vars
  /\ pc = "pipe_wait2"
  /\ \E q \in WaitSet(p2) : Reap(q, ut, stm)
  /\ pc' = "prompt"
  /\ UNCHANGED << exit_vars, shell_globals, cwd, pid, pipe_locals, log_vars >>

\* the pipe ends a stage holds once it has done its close, dup2, close
Stage1Fds(fds) == fds \ {"r"}
Stage2Fds(fds) == fds \ {"w"}

\* a pipeline stage: close, dup2, close, split_line and execvp
StageRuns(p, mem_ok) ==
  /\ last_signal' = NoSignal
  /\ pc # "exited"
  /\ procs[p].kind \in {"p1", "p2"}
  /\ procs[p].st = "forked"
  /\ LET args == split_line(procs[p].args)
         fds == IF procs[p].kind = "p1" THEN Stage1Fds(procs[p].fds)
                ELSE Stage2Fds(procs[p].fds)
         how == IF mem_ok /\ CanExec(args) THEN "exec" ELSE "failed"
         image == [cmd |-> Argv(args), argv |-> Argv(args),
                   in |-> IF procs[p].kind = "p1" THEN "stdin" ELSE "pipe",
                   out |-> IF procs[p].kind = "p1" THEN "pipe" ELSE "stdout"]
     IN /\ procs' = [procs EXCEPT ![p] =
                       IF how = "exec"
                       THEN [@ EXCEPT !.st = "running", !.how = how,
                                      !.args = <<>>, !.fds = fds,
                                      !.image = image, !.buf = FALSE]
                       ELSE Exited(@)]
        /\ banner_emitted' =
             banner_emitted +
               (IF how = "exec" THEN 0 ELSE Flushed(procs[p].buf))
        /\ UNCHANGED banner_pending
        /\ IF how = "exec" THEN UNCHANGED first_done ELSE NoteDone(p)
  /\ UNCHANGED << pc, exit_vars, shell_globals, rusage_vars, cwd, pid, p1, p2,
                  pipe_cmd2, pipefd, log_vars >>

\* who holds the write end of the newest pipe open; 0 is the shell
WriteEndHolders ==
  {p \in Pids : "w" \in procs[p].fds} \cup
    (IF "w" \in pipefd THEN {0} ELSE {})

\* the program of a writer stage ends
WriterEnds(p) ==
  /\ procs[p].kind = "p1"
  /\ ProgramEnds(p)

\* the program of a reader stage ends on the end-of-file it reads from the
\* pipe, which it can only get once nobody holds the write end open
ReaderSeesEOF(p) ==
  /\ procs[p].kind = "p2"
  /\ WriteEndHolders = {}
  /\ ProgramEnds(p)

\* ------------------------------------------------------------------ signals

\* the foreground child the shell is blocked on and that is still running
ForegroundChild ==
  IF pc = "fg_wait" /\ Alive(pid) THEN pid ELSE NoPid

\* mutant of Handler: kill(-child_pid, sig) without the test child_pid != -1
HandlerForwardsUnchecked(sig) ==
  /\ pc # "exited"
  /\ kills' = kills \cup {<< -child_pid, sig >>}
  /\ last_signal' =
       [sig |-> sig, fg |-> ForegroundChild, target |-> -child_pid]
  /\ UNCHANGED stdio_vars
  /\ UNCHANGED << pc, exit_vars, shell_globals, rusage_vars, cwd, procs, pid,
                  pipe_locals, bg_printed, printed_times >>

\* sigint_handler / sigtstp_handler; target 0: no kill(), the prompt is
\* printed instead
Handler(sig) ==
  /\ pc # "exited"
  /\ IF child_pid # NoPid
     THEN /\ kills' = kills \cup {<< -child_pid, sig >>}
          /\ last_signal' =
               [sig |-> sig, fg |-> ForegroundChild, target |-> -child_pid]
          /\ UNCHANGED stdio_vars
     ELSE /\ kills' = kills
          /\ last_signal' =
               [sig |-> sig, fg |-> ForegroundChild, target |-> 0]
          /\ FlushStdout
  /\ UNCHANGED << pc, exit_vars, shell_globals, rusage_vars, cwd, procs, pid,
                  pipe_locals, bg_printed, printed_times >>

Signals == {"SIGINT", "SIGTSTP"}

\* ------------------------------------------------------------ specification

\* commands, pipelines, the children and the ways out of the shell
JobStep ==
  \/ ReadEOF
  \/ ReadError
  \/ SplitLineAllocFail
  \/ \E line \in Lines : ExitShell(line)
  \/ \E line \in Lines, fork_ok \in BOOLEAN : ExecuteCommand(line, fork_ok)
  \/ \E ut \in 0..MaxTicks, stm \in 0..MaxTicks : ForegroundReaped(ut, stm)
  \/ \E p \in Pids : CommandChildRuns(p)
  \/ \E p \in Pids : ProgramEnds(p)
  \/ PipeFails
  \/ \E line \in Lines, fork_ok \in BOOLEAN : ExecutePipe(line, fork_ok)
  \/ \E fork_ok \in BOOLEAN : PipeFork2(fork_ok)
  \/ PipeClose
  \/ \E ut \in 0..MaxTicks, stm \in 0..MaxTicks : PipeWait1(ut, stm)
  \/ \E ut \in 0..MaxTicks, stm \in 0..MaxTicks : PipeWait2(ut, stm)
  \/ \E p \in Pids, mem_ok \in BOOLEAN : StageRuns(p, mem_ok)

\* the lines main handles without a child
BuiltinStep ==
  \/ \E line \in Lines : EmptyLine(line)
  \/ \E line \in Lines : Cd(line)
  \/ \E line \in Lines : Pwd(line)

Next ==
  \/ JobStep
  \/ BuiltinStep
  \/ \E sig \in Signals : Handler(sig)

Spec == Init /\ [][Next]_vars

\* pipelines only: execute_pipe, its two stages, and the signals
NextPipe ==
  \/ PipeFails
  \/ \E line \in Lines, fork_ok \in BOOLEAN : ExecutePipe(line, fork_ok)
  \/ \E fork_ok \in BOOLEAN : PipeFork2(fork_ok)
  \/ PipeClose
  \/ \E ut \in 0..MaxTicks, stm \in 0..MaxTicks : PipeWait1(ut, stm)
  \/ \E ut \in 0..MaxTicks, stm \in 0..MaxTicks : PipeWait2(ut, stm)
  \/ \E p \in Pids, mem_ok \in BOOLEAN : StageRuns(p, mem_ok)
  \/ \E p \in Pids : ProgramEnds(p)
  \/ \E sig \in Signals : Handler(sig)

\* the shell runs on inside execute_pipe and a waitpid returns once its child
\* has terminated; a forked stage gets to run; a writer's program terminates,
\* and a reader's program terminates once it can read end-of-file
PipeFairness ==
  /\ WF_vars(\E fork_ok \in BOOLEAN : PipeFork2(fork_ok))
  /\ WF_vars(PipeClose)
  /\ WF_vars(\E ut \in 0..MaxTicks, stm \in 0..MaxTicks : PipeWait1(ut, stm))
  /\ WF_vars(\E ut \in 0..MaxTicks, stm \in 0..MaxTicks : PipeWait2(ut, stm))
  /\ \A p \in Pids : WF_vars(\E mem_ok \in BOOLEAN : StageRuns(p, mem_ok))
  /\ \A p \in Pids : WF_vars(WriterEnds(p))
  /\ \A p \in Pids : WF_vars(ReaderSeesEOF(p))

SpecPipe == Init /\ [][NextPipe]_vars /\ PipeFairness

\* one foreground child of execute_command, from its fork to its waitpid:
\* the shell has read a line of ChildLines as its first line and forked
InitChild ==
  \E line \in ChildLines :
    /\ banner_pending = FALSE
    /\ banner_emitted = 1
    /\ pc = "fg_wait"
    /\ exit_status = NoPid
    /\ exit_cause = "none"
    /\ bg_processes = NoPid
    /\ child_pid = NoPid
    /\ total_user_time = 0
    /\ total_sys_time = 0
    /\ ru_utime = 0
    /\ ru_stime = 0
    /\ cwd = "home"
    /\ procs = [p \in Pids |->
                  IF p = 1 THEN Child("fg", split_line(line), {}) ELSE NoProc]
    /\ pid = 1
    /\ p1 = NoPid
    /\ p2 = NoPid
    /\ pipe_cmd2 = <<>>
    /\ pipefd = {}
    /\ bg_printed = {}
    /\ printed_times = <<>>
    /\ kills = {}
    /\ last_signal = NoSignal
    /\ first_done = 0

NextChild ==
  \/ \E p \in Pids : CommandChildRuns(p)
  \/ \E p \in Pids : ProgramEnds(p)
  \/ \E ut \in 0..MaxTicks, stm \in 0..MaxTicks : ForegroundReaped(ut, stm)
  \/ \E sig \in Signals : Handler(sig)

SpecChild == InitChild /\ [][NextChild]_vars

\* the session of a shell whose stdout is fully buffered
SpecBuffered == InitBuffered /\ [][Next]_vars

\* -------------------------------------------------------------- properties

\* the background children, and the one launched last
BackgroundPids == {p \in Pids : procs[p].kind = "bg"}
LastBackground ==
  CHOOSE p \in BackgroundPids : \A q \in BackgroundPids : q <= p

\* C1: a SIGINT or SIGTSTP that reaches the shell while it is blocked on a
\* running foreground child of execute_command is sent on to that child's
\* process group, and the shell does not terminate.
C1_SignalForwarded ==
  last_signal.fg # NoPid =>
    /\ << -last_signal.fg, last_signal.sig >> \in kills
    /\ pc # "exited"

\* C2: once execute_command has launched a command in the background,
\* bg_processes[0] holds the pid of that child, not the sentinel -1, in
\* every later state of the running shell.
C2_SlotHoldsBackgroundPid ==
  (pc # "exited" /\ BackgroundPids # {}) => bg_processes = LastBackground

\* C3: when the shell terminates through `exit` or end-of-input, every
\* background child still running has been sent SIGTERM.
C3_BackgroundTerminatedAtExit ==
  (pc = "exited" /\ exit_cause \in {"exit", "eof"}) =>
    \A p \in BackgroundPids : Alive(p) => << p, "SIGTERM" >> \in kills

\* C4: the two totals exit_shell prints are the CPU seconds the terminated
\* (reaped) foreground children have consumed, each child counted once.
C4_PrintedTotalsAreCumulative ==
  printed_times # <<>> =>
    printed_times = << tv_sec(ru_utime), tv_sec(ru_stime) >>

\* C5: the shell exits only on `exit` or end-of-input; no failure of the
\* error taxonomy (allocation, pipe, fork, exec, open, cd) makes it exit.
\* A read error of getline is outside the taxonomy and is left aside.
C5_OnlyExitOrEndOfInput ==
  (pc = "exited" /\ exit_cause # "read_error") =>
    exit_cause \in {"exit", "eof"}

\* C6: when both forks of a pipeline succeed, execute_pipe is back at the
\* prompt only after both stages have terminated and been waited for,
\* whichever of the two terminated first.
C6_PipeWaitsForBoth ==
  (pc = "prompt" /\ p1 # NoPid /\ p2 # NoPid) =>
    /\ procs[p1].st = "reaped"
    /\ procs[p2].st = "reaped"

\* C6, its case: execute_pipe has returned from a pipeline whose second
\* stage terminated before the first.
C6_Witness ==
  /\ pc = "prompt"
  /\ p1 # NoPid
  /\ p2 # NoPid
  /\ first_done = 2
  /\ procs[p1].st = "reaped"
  /\ procs[p2].st = "reaped"

\* execute_pipe is past its forks and its closes (it waits, or has returned),
\* and the second stage, if there is one, has reached its program
PipeIsSetUp ==
  /\ pc \notin {"pipe_fork2", "pipe_close", "exited"}
  /\ p2 # NoPid => procs[p2].st # "forked"

\* C7: in every pipeline execution the writer stage runs its program with
\* the read end closed, the reader stage runs its program with the write
\* end closed, the parent waits with both ends closed, and so, once the
\* writer stage has terminated, no process holds the write end open.
C7_PipeEndsClosed ==
  /\ \A p \in Pids :
       (procs[p].kind = "p1" /\ procs[p].st = "running") =>
         "r" \notin procs[p].fds
  /\ \A p \in Pids :
       (procs[p].kind = "p2" /\ procs[p].st = "running") =>
         "w" \notin procs[p].fds
  /\ pc \in {"pipe_wait1", "pipe_wait2"} => pipefd = {}
  /\ (p1 # NoPid /\ ~Alive(p1) /\ PipeIsSetUp) => WriteEndHolders = {}

\* the lines whose argument vector contains the background marker
BackgroundLines == {line \in Lines : \E i \in 1..Len(line) : line[i] = "&"}

\* C8: for a command whose argument vector contains "&", execute_command
\* is back at the prompt without having waited for the child, which is
\* still running, and the pid it prints is the pid fork returned.
C8_BackgroundReturnsAtOnce ==
  [][\A line \in BackgroundLines :
       (pc = "prompt" /\ procs' # procs /\ ExecuteCommand(line, TRUE)) =>
         /\ pc' = "prompt"
         /\ procs'[NewPid].st = "forked"
         /\ UNCHANGED rusage_vars
         /\ bg_printed' = bg_printed \cup {<< NewPid, NewPid >>}]_vars

\* C8, its case: the shell has launched a further child from the prompt
\* while a background child whose pid it printed is still running.
C8_Witness ==
  /\ pc = "prompt"
  /\ \E p, q \in Pids :
       /\ p < q
       /\ procs[p].kind = "bg"
       /\ Alive(p)
       /\ << p, p >> \in bg_printed
       /\ procs[q].st # "none"

\* C9: while a foreground child of execute_command has not terminated and
\* been waited for, the shell is blocked in the waitpid for that very child,
\* whatever background children terminate meanwhile; the shell never blocks
\* on a background child and never reaps one.
C9_ForegroundBlocks ==
  /\ \A p \in Pids :
       (procs[p].kind = "fg" /\ procs[p].st # "reaped") =>
         (pc = "fg_wait" /\ pid = p)
  /\ pc = "fg_wait" => procs[pid].kind = "fg"
  /\ \A p \in BackgroundPids : procs[p].st # "reaped"

\* C9, its case: the shell is blocked on a running foreground child while a
\* background child has already terminated.
C9_Witness ==
  /\ pc = "fg_wait"
  /\ Alive(pid)
  /\ \E q \in BackgroundPids : procs[q].st = "zombie"

\* the child of execute_command cannot open a redirection target, or cannot
\* replace its image
LaunchFails(args) ==
  \/ \E i \in 1..ArgLen(args) : args[i] = ">" /\ ~CanOpenWrite(args[i + 1])
  \/ \E i \in 1..ArgLen(args) : args[i] = "<" /\ ~CanOpenRead(args[i + 1])
  \/ args[1] \notin Executables

\* what has become of the children of execute_command that ran no program:
\* a foreground one is being waited for or is reaped, a background one is
\* left unreaped
FailedChildren ==
  \A p \in Pids :
    procs[p].how = "failed" =>
      /\ procs[p].status # EXIT_SUCCESS
      /\ procs[p].kind = "fg" =>
           \/ procs[p].st = "reaped"
           \/ procs[p].st = "zombie" /\ pc = "fg_wait" /\ pid = p
      /\ procs[p].kind = "bg" => procs[p].st = "zombie"

C11_TotalsNeverDecrease ==
  [][/\ (pc = "fg_wait" /\ pc' = "prompt") =>
          /\ total_user_time' >= total_user_time
          /\ total_sys_time' >= total_sys_time
     /\ (printed_times = <<>> /\ printed_times' # <<>>) =>
          /\ printed_times'[1] >= 0
          /\ printed_times'[2] >= 0
          /\ printed_times'[1] >= total_user_time
          /\ printed_times'[2] >= total_sys_time]_vars

\* C11, its case: a second foreground command has been waited for and has
\* raised the user total the first one left.
C11_Witness ==
  /\ pc = "prompt"
  /\ total_user_time >= 2
  /\ \A p \in Pids : procs[p].kind = "fg" /\ procs[p].st = "reaped"

\* C12: a SIGINT or SIGTSTP delivered while no foreground child is running
\* makes the handler print the prompt; it sends no signal to any process,
\* and the shell does not exit: it is where it was, with its state and its
\* children untouched.
C12_IdleSignalShowsPrompt ==
  [][(last_signal'.sig # "none" /\ last_signal'.fg = NoPid) =>
       /\ last_signal'.target = 0
       /\ kills' = kills
       /\ pc' = pc
       /\ pc' # "exited"
       /\ UNCHANGED << exit_vars, shell_globals, cwd, procs >>]_vars

\* C12, its case: SIGTSTP has reached the shell at the prompt while a
\* background child is running; the prompt was printed and no signal sent.
C12_Witness ==
  /\ last_signal.sig = "SIGTSTP"
  /\ last_signal.fg = NoPid
  /\ last_signal.target = 0
  /\ pc = "prompt"
  /\ kills = {}
  /\ \E p \in BackgroundPids : procs[p].st = "running"

\* the lines that ask cd for a directory chdir() cannot enter
CdFailLines ==
  {line \in Lines :
     Len(line) >= 2 /\ line[1] = "cd" /\ line[2] \notin Directories}

\* C13: for `cd` with a path that cannot be entered, cd writes its perror
\* diagnostic, the shell is in the same directory afterwards as before, no
\* child has been forked, and the shell is at the prompt for the next line.
C13_CdFailureLeavesShell ==
  [][\A line \in CdFailLines :
       (pc = "prompt" /\ Cd(line)) =>
         /\ cd_output(split_line(line)[2]) = "perror"
         /\ cwd' = cwd
         /\ procs' = procs
         /\ pc' = "prompt"
         /\ UNCHANGED << exit_vars, shell_globals, pid >>]_vars

\* C13, its case: the shell is at the prompt in a directory it has entered
\* with cd, a handler has just run, and the next line may be a `cd` to a
\* path that cannot be entered: that step leaves the shell in this state but
\* for the handler's record.
C13_Witness ==
  /\ pc = "prompt"
  /\ cwd = "dir"
  /\ CdFailLines # {}
  /\ last_signal # NoSignal

\* C14: child_pid holds the pid of the foreground child from before the
\* shell blocks in waitpid until that child is reaped, and -1 at all other
\* times: child_pid # -1 exactly when the shell is blocked waiting for a
\* foreground child, and then it is that child's pid.
C14_ChildPidTracksForeground ==
  /\ (child_pid # NoPid) <=> (pc = "fg_wait")
  /\ pc = "fg_wait" => child_pid = pid

\* C15: if the program of the first stage terminates and the program of the
\* second stage terminates once it reads end-of-file, execute_pipe, once it
\* has forked its first stage, is back at the prompt in the end: no pipe
\* end the shell holds keeps the reader from its end-of-file.
C15_PipelineReturns == (pc = "pipe_fork2") ~> (pc = "prompt")

\* C15, its case: execute_pipe is back from a pipeline whose reader ran its
\* program until the writer had terminated and the write end was closed
\* everywhere.
C15_Witness ==
  /\ pc = "prompt"
  /\ p1 # NoPid
  /\ p2 # NoPid
  /\ first_done = 1
  /\ procs[p1].how = "exec"
  /\ procs[p2].how = "exec"
  /\ procs[p2].st = "reaped"
  /\ WriteEndHolders = {}

\* the children of execute_command that run their program
RunningCommands ==
  {p \in Pids : procs[p].kind \in {"fg", "bg"} /\ procs[p].st = "running"}

\* a token that names a file
IsFile(tok) == tok \notin {NULL, "<", ">", "&", "|"}

\* the positions of tok in cmd, and the first of them, 0 if there is none
Positions(cmd, tok) == {k \in 1..Len(cmd) : cmd[k] = tok}
FirstPosition(cmd, tok) == FirstIndex(split_line(cmd), tok)

\* cmd has exactly one tok, and a file name after it
HasOne(cmd, tok) ==
  /\ Cardinality(Positions(cmd, tok)) = 1
  /\ IsFile(split_line(cmd)[FirstPosition(cmd, tok) + 1])

\* C16: a command with one `< infile` and one `> outfile`, in either order,
\* both files being ones open() can open, runs its program with standard
\* input bound to infile and standard output bound to outfile.
C16_BothRedirectionsBound ==
  \A p \in RunningCommands :
    LET cmd == procs[p].image.cmd IN
      (/\ HasOne(cmd, "<")
       /\ HasOne(cmd, ">")
       /\ CanOpenRead(cmd[FirstPosition(cmd, "<") + 1])
       /\ CanOpenWrite(cmd[FirstPosition(cmd, ">") + 1])) =>
        /\ procs[p].image.in = cmd[FirstPosition(cmd, "<") + 1]
        /\ procs[p].image.out = cmd[FirstPosition(cmd, ">") + 1]

\* cmd without the tokens at the positions of drop
Without(cmd, drop) ==
  LET keep == {k \in 1..Len(cmd) : k \notin drop} IN
    [j \in 1..Cardinality(keep) |->
       cmd[CHOOSE k \in keep : Cardinality({m \in keep : m <= k}) = j]]

\* the positions of the first tok of cmd and of the file name after it
Honored(cmd, tok) ==
  IF FirstPosition(cmd, tok) = 0 THEN {}
  ELSE {FirstPosition(cmd, tok), FirstPosition(cmd, tok) + 1}

\* each operator that cmd has is followed by a file name
WellFormed(cmd) ==
  \A k \in Positions(cmd, "<") \cup Positions(cmd, ">") :
    IsFile(split_line(cmd)[k + 1])

\* C17: the vector passed to execvp is the command without the first `>`,
\* the first `<` and the file name after each: every other argument, the
\* ones after a redirection included, is passed on, in order.
C17_ArgvKeepsOtherArguments ==
  \A p \in RunningCommands :
    LET cmd == procs[p].image.cmd IN
      WellFormed(cmd) =>
        procs[p].image.argv =
          Without(cmd, Honored(cmd, "<") \cup Honored(cmd, ">"))

\* C18: a command whose last token is `<` or `>`, the only one of its kind
\* in the command, does not run its program, and no scan of the child reads
\* a slot after the NULL that ends its vector.
C18_TrailingOperatorIsAnError ==
  /\ \A p \in Pids : ~procs[p].overrun
  /\ \A p \in RunningCommands :
       LET cmd == procs[p].image.cmd IN
         \A tok \in {"<", ">"} : FirstPosition(cmd, tok) # Len(cmd)

\* C19: whenever execute_pipe has returned, by whichever path, the shell
\* holds no end of the pipe open and every stage it has forked has been
\* waited for.
C19_PipeReturnsClean ==
  pc = "prompt" =>
    /\ pipefd = {}
    /\ \A p \in Pids :
         procs[p].kind \in {"p1", "p2"} => procs[p].st = "reaped"

\* C20: what the shell has printed is written out at most once: no child
\* that leaves through exit() writes out the banner the shell's buffer held
\* when it was forked, be it to the shell's standard output, to a `>`
\* target or into the pipe.
C20_BannerEmittedOnce == banner_emitted <= 1

====
